---- MODULE Spec2Model ----
(***************************************************************************)
(* Predicated boxes of ergo-protocol-framework (predicated_boxes.rs):      *)
(* StageBox, ErgsBox and OracleBoxLong, their predicates, constructors,    *)
(* accessors, public fields and the aggregate helpers over Vec<ErgsBox>.   *)
(***************************************************************************)
EXTENDS Integers, Sequences, FiniteSets, TLC

VARIABLES
    call,    \* the last call made on the module: its name and arguments
    ret,     \* what that call returned
    held,    \* the wrapper the caller owns: <<>> or <<w>>
    boxes    \* the Vec<ErgsBox> the caller owns and lends to the helpers

vars == <<call, ret, held, boxes>>

\* Longest Vec<ErgsBox> handed to the helpers.
MaxBoxes == 3

(***************************************************************************)
(* u64 arithmetic.  A number is a little-endian sequence of base-2^16      *)
(* digits; a u64 has four of them, so that 2^64 and the sums beyond it are *)
(* represented exactly.                                                    *)
(***************************************************************************)
LimbBase == 2^16
U64Limbs == 64 \div 16

\* The u64 of a literal below 2^31.
ToU64(n) ==
    [i \in 1..U64Limbs |->
        IF i = 1 THEN n % LimbBase
        ELSE IF i = 2 THEN (n \div LimbBase) % LimbBase
        ELSE 0]

\* i64::MAX = 2^63 - 1, the largest value a BoxValue is given here.
I64Max == [i \in 1..U64Limbs |-> IF i = U64Limbs THEN 32767 ELSE 65535]

\* carry into digit i of a + b (a, b of the same length)
RECURSIVE CarryIn(_, _, _)
CarryIn(a, b, i) ==
    IF i = 1 THEN 0 ELSE (a[i-1] + b[i-1] + CarryIn(a, b, i-1)) \div LimbBase

\* a + b modulo LimbBase^Len(a)
AddMod(a, b) == [i \in 1..Len(a) |-> (a[i] + b[i] + CarryIn(a, b, i)) % LimbBase]

\* the carry out of the top digit of a + b: 1 iff a + b >= LimbBase^Len(a)
CarryOut(a, b) == CarryIn(a, b, Len(a) + 1)

\* a > b, for a and b of the same length
RECURSIVE GtFrom(_, _, _)
GtFrom(a, b, i) ==
    IF i = 0 THEN FALSE
    ELSE IF a[i] # b[i] THEN a[i] > b[i]
    ELSE GtFrom(a, b, i - 1)

Gt(a, b) == GtFrom(a, b, Len(a))

(***************************************************************************)
(* Ledger entries (ErgoBox).                                               *)
(***************************************************************************)
BoxIds == {"id1", "id2"}

Values ==
    {ToU64(999999), ToU64(1000000), ToU64(1000001), ToU64(2000000), ToU64(3000000), I64Max}

Token(id, amount) == [token_id |-> id, amount |-> amount]

TokenLists ==
    { <<>>,
      <<Token("nft", 1)>>,
      <<Token("nft", 2)>>,
      <<Token("nft", 1), Token("other", 1)>> }

\* ConstantVal::Long(i) and a constant of another type
Long(i) == [type |-> "Long", v |-> i]
IntVal(i) == [type |-> "Int", v |-> i]

RegisterLists ==
    { <<>>,
      <<Long(42)>>,
      <<IntVal(42)>>,
      <<Long(-7), IntVal(42)>> }

ErgoBox(id, value, tokens, registers) ==
    [box_id |-> id, value |-> value, tokens |-> tokens,
     additional_registers |-> registers]

Entries ==
    { ErgoBox(id, v, t, r) :
        id \in BoxIds, v \in Values, t \in TokenLists, r \in RegisterLists }

(***************************************************************************)
(* Errors and results.                                                     *)
(***************************************************************************)
InvalidErgsValue(msg) == [kind |-> "InvalidErgsValue", msg |-> msg]
InvalidTokens(msg) == [kind |-> "InvalidTokens", msg |-> msg]
InvalidOracleBox(msg) == [kind |-> "InvalidOracleBox", msg |-> msg]
OtherError(msg) == [kind |-> "OtherError", msg |-> msg]

Ok(v) == [ok |-> TRUE, val |-> v]
Err(e) == [ok |-> FALSE, err |-> e]
\* the value ()
Unit == [unit |-> TRUE]

\* `r?` on a Result whose error type is already BoxVerificationError:
\* From::from is the identity, the error is returned as it is.
Try(r) == Err(r.err)

(***************************************************************************)
(* Predicates: values of type fn(&ErgoBox) -> Result<()>, named by the     *)
(* function they point to.                                                 *)
(***************************************************************************)
\* box_with_ergs_predicate with `>=` in place of `>`
box_with_ergs_predicate_ge(b) ==
    IF Gt(b.value, ToU64(1000000)) \/ b.value = ToU64(1000000)
    THEN Ok(Unit)
    ELSE Err(InvalidErgsValue("ErgoBox did not have more than 999999 nanoErgs inside."))

box_with_ergs_predicate(b) ==
    IF Gt(b.value, ToU64(1000000))
    THEN Ok(Unit)
    ELSE Err(InvalidErgsValue("ErgoBox did not have more than 999999 nanoErgs inside."))

\* extract_long_datapoint reading the last register in place of the first
extract_long_datapoint_last(b) ==
    LET registers == b.additional_registers
    IN  IF Len(registers) < 1
        THEN Err(InvalidOracleBox("No datapoint in R4."))
        ELSE IF registers[Len(registers)].type = "Long"
             THEN Ok(registers[Len(registers)].v)
             ELSE Err(InvalidOracleBox("Value in R4 is not a Long."))

extract_long_datapoint(b) ==
    LET registers == b.additional_registers
    IN  IF Len(registers) < 1
        THEN Err(InvalidOracleBox("No datapoint in R4."))
        ELSE IF registers[1].type = "Long"
             THEN Ok(registers[1].v)
             ELSE Err(InvalidOracleBox("Value in R4 is not a Long."))

\* oracle_box_predicate without the check of the token's amount
oracle_box_predicate_any_amount(b) ==
    IF ~extract_long_datapoint(b).ok
    THEN Try(extract_long_datapoint(b))
    ELSE IF Len(b.tokens) # 1
    THEN Err(InvalidTokens("The oracle box is required to only hold a single NFT token."))
    ELSE Ok(Unit)

\* oracle_box_predicate checking the tokens before the datapoint
oracle_box_predicate_tokens_first(b) ==
    IF Len(b.tokens) # 1
    THEN Err(InvalidTokens("The oracle box is required to only hold a single NFT token."))
    ELSE IF b.tokens[1].amount # 1
    THEN Err(InvalidTokens("The oracle box is required to only hold a single NFT token."))
    ELSE IF ~extract_long_datapoint(b).ok
    THEN Try(extract_long_datapoint(b))
    ELSE Ok(Unit)

oracle_box_predicate(b) ==
    IF ~extract_long_datapoint(b).ok
    THEN Try(extract_long_datapoint(b))
    ELSE IF Len(b.tokens) # 1
    THEN Err(InvalidTokens("The oracle box is required to only hold a single NFT token."))
    ELSE IF b.tokens[1].amount # 1
    THEN Err(InvalidTokens("The oracle box is required to only hold a single NFT token."))
    ELSE Ok(Unit)

\* the function pointer to the function called name
Fn(name) == [fn |-> name]

Predicates == {Fn("box_with_ergs_predicate"), Fn("oracle_box_predicate")}

\* (p)(b): the call through the function pointer p
Apply(p, b) ==
    IF p = Fn("box_with_ergs_predicate")
    THEN box_with_ergs_predicate(b)
    ELSE oracle_box_predicate(b)

(***************************************************************************)
(* Stage markers: zero-sized types implementing StageType.                 *)
(***************************************************************************)
StageTypes == {"PoolStage", "DepositStage"}

\* ST::new()
ST_new(st) == [stage_type |-> st]

Markers == {ST_new(st) : st \in StageTypes}

(***************************************************************************)
(* The wrappers and their constructors.                                    *)
(***************************************************************************)
\* StageBox::new replacing the predicate's error by one of its own
StageBox_new_own_error(b, predicate, marker) ==
    IF ~Apply(predicate, b).ok
    THEN Err(OtherError("The box did not pass the stage predicate."))
    ELSE Ok([ty |-> "StageBox",
             stage |-> ST_new(marker.stage_type),
             predicate |-> predicate,
             ergo_box |-> b])

\* StageBox::new storing a fixed predicate in place of the supplied one
StageBox_new_fixed_predicate(b, predicate, marker) ==
    IF ~Apply(predicate, b).ok
    THEN Try(Apply(predicate, b))
    ELSE Ok([ty |-> "StageBox",
             stage |-> ST_new(marker.stage_type),
             predicate |-> Fn("box_with_ergs_predicate"),
             ergo_box |-> b])

StageBox_new(b, predicate, marker) ==
    IF ~Apply(predicate, b).ok
    THEN Try(Apply(predicate, b))
    ELSE Ok([ty |-> "StageBox",
             stage |-> ST_new(marker.stage_type),
             predicate |-> predicate,
             ergo_box |-> b])

ErgsBox_new(b) ==
    IF ~box_with_ergs_predicate(b).ok
    THEN Try(box_with_ergs_predicate(b))
    ELSE Ok([ty |-> "ErgsBox",
             ergo_box |-> b,
             predicate |-> Fn("box_with_ergs_predicate")])

OracleBoxLong_new(b) ==
    IF ~oracle_box_predicate(b).ok
    THEN Try(oracle_box_predicate(b))
    ELSE IF ~extract_long_datapoint(b).ok
    THEN Try(extract_long_datapoint(b))
    ELSE Ok([ty |-> "OracleBoxLong",
             ergo_box |-> b,
             predicate |-> Fn("oracle_box_predicate"),
             datapoint |-> extract_long_datapoint(b).val])

\* PredicatedBox::predicate(&self), by implementing type
predicate(w) ==
    IF w.ty = "StageBox" THEN w.predicate
    ELSE IF w.ty = "ErgsBox" THEN Fn("box_with_ergs_predicate")
    ELSE Fn("oracle_box_predicate")

\* PredicatedBox::get_box(&self): a clone of the private entry
get_box(w) == w.ergo_box

\* #[derive(Clone)] on StageBox: a field-by-field clone
StageBox_clone(w) ==
    [ty |-> "StageBox", ergo_box |-> w.ergo_box,
     predicate |-> w.predicate, stage |-> w.stage]

(***************************************************************************)
(* The helpers over Vec<ErgsBox>.                                          *)
(***************************************************************************)
Panicked == [panicked |-> TRUE]
Returned(v) == [panicked |-> FALSE, sum |-> v]

\* `x + acc` on u64: with overflow checks compiled in (the default of a
\* debug build) an overflowing addition panics, without them (the default
\* of a release build) it wraps modulo 2^64.
AddU64(x, acc, overflow_checks) ==
    IF CarryOut(x, acc) # 0 /\ overflow_checks
    THEN Panicked
    ELSE Returned(AddMod(x, acc))

\* the fold of sum_ergs_boxes_value over the first n boxes
RECURSIVE SumFold(_, _, _)
SumFold(bs, n, overflow_checks) ==
    IF n = 0 THEN Returned(ToU64(0))
    ELSE LET acc == SumFold(bs, n - 1, overflow_checks)
         IN  IF acc.panicked THEN Panicked
             ELSE AddU64(get_box(bs[n]).value, acc.sum, overflow_checks)

sum_ergs_boxes_value(bs, overflow_checks) == SumFold(bs, Len(bs), overflow_checks)

\* unwrap_ergs_boxes collecting the entries in reverse
unwrap_ergs_boxes_rev(bs) == [i \in 1..Len(bs) |-> get_box(bs[Len(bs) + 1 - i])]

unwrap_ergs_boxes(bs) == [i \in 1..Len(bs) |-> get_box(bs[i])]

\* From<ErgoBox> for UnsignedInput: the input that spends the box
UnsignedInput_from(b) == [box_id |-> b.box_id, extension |-> <<>>]

ergs_boxes_to_inputs(bs) == [i \in 1..Len(bs) |-> UnsignedInput_from(get_box(bs[i]))]

(***************************************************************************)
(* The wrapper operations: constructors, accessors, clone, and the         *)
(* assignments the `pub` fields allow to the owner of a wrapper.           *)
(***************************************************************************)
NoCall == [op |-> "none"]

Init ==
    /\ call = NoCall
    /\ ret = Unit
    /\ held = <<>>
    /\ boxes = <<>>

\* the caller keeps the wrapper of a successful construction
Keep(r) == IF r.ok THEN <<r.val>> ELSE <<>>

ErgsBoxNew(b) ==
    /\ call' = [op |-> "ErgsBox::new", b |-> b]
    /\ ret' = ErgsBox_new(b)
    /\ held' = Keep(ErgsBox_new(b))
    /\ UNCHANGED boxes

OracleBoxLongNew(b) ==
    /\ call' = [op |-> "OracleBoxLong::new", b |-> b]
    /\ ret' = OracleBoxLong_new(b)
    /\ held' = Keep(OracleBoxLong_new(b))
    /\ UNCHANGED boxes

StageBoxNew(b, p, m) ==
    /\ call' = [op |-> "StageBox::new", b |-> b, predicate |-> p, marker |-> m]
    /\ ret' = StageBox_new(b, p, m)
    /\ held' = Keep(StageBox_new(b, p, m))
    /\ UNCHANGED boxes

GetBox ==
    /\ held # <<>>
    /\ call' = [op |-> "get_box"]
    /\ ret' = get_box(held[1])
    /\ UNCHANGED <<held, boxes>>

Predicate ==
    /\ held # <<>>
    /\ call' = [op |-> "predicate"]
    /\ ret' = predicate(held[1])
    /\ UNCHANGED <<held, boxes>>

Clone ==
    /\ held # <<>>
    /\ held[1].ty = "StageBox"
    /\ call' = [op |-> "clone"]
    /\ ret' = StageBox_clone(held[1])
    /\ UNCHANGED <<held, boxes>>

\* w.predicate = p: `pub predicate` of StageBox, ErgsBox and OracleBoxLong
SetPredicate(p) ==
    /\ held # <<>>
    /\ call' = [op |-> "predicate =", predicate |-> p]
    /\ ret' = Unit
    /\ held' = <<[held[1] EXCEPT !.predicate = p]>>
    /\ UNCHANGED boxes

\* w.datapoint = i: `pub datapoint` of OracleBoxLong
SetDatapoint(i) ==
    /\ held # <<>>
    /\ held[1].ty = "OracleBoxLong"
    /\ call' = [op |-> "datapoint =", datapoint |-> i]
    /\ ret' = Unit
    /\ held' = <<[held[1] EXCEPT !.datapoint = i]>>
    /\ UNCHANGED boxes

\* the i64 values a caller assigns
LongVals == {-7, 42}

Next ==
    \/ \E b \in Entries : ErgsBoxNew(b)
    \/ \E b \in Entries : OracleBoxLongNew(b)
    \/ \E b \in Entries, p \in Predicates, m \in Markers : StageBoxNew(b, p, m)
    \/ GetBox
    \/ Predicate
    \/ Clone
    \/ \E p \in Predicates : SetPredicate(p)
    \/ \E i \in LongVals : SetDatapoint(i)

Spec == Init /\ [][Next]_vars

(***************************************************************************)
(* The helpers, applied to every Vec<ErgsBox> of at most MaxBoxes boxes.   *)
(***************************************************************************)
\* entries the boxes of the vector are built from
HelperEntries == {b \in Entries : b.tokens = <<>> /\ b.additional_registers = <<>>}

ErgsBoxes == {ErgsBox_new(b).val : b \in {e \in HelperEntries : ErgsBox_new(e).ok}}

BoxVecs == UNION {[1..n -> ErgsBoxes] : n \in 0..MaxBoxes}

HelperInit ==
    /\ call = NoCall
    /\ ret = Unit
    /\ held = <<>>
    /\ boxes \in BoxVecs

\* a Vec returned by a helper
Vec(elems) == [vec |-> elems]

SumErgsBoxesValue(overflow_checks) ==
    /\ call' = [op |-> "sum_ergs_boxes_value", overflow_checks |-> overflow_checks]
    /\ ret' = sum_ergs_boxes_value(boxes, overflow_checks)
    /\ UNCHANGED <<held, boxes>>

UnwrapErgsBoxes ==
    /\ call' = [op |-> "unwrap_ergs_boxes"]
    /\ ret' = Vec(unwrap_ergs_boxes(boxes))
    /\ UNCHANGED <<held, boxes>>

ErgsBoxesToInputs ==
    /\ call' = [op |-> "ergs_boxes_to_inputs"]
    /\ ret' = Vec(ergs_boxes_to_inputs(boxes))
    /\ UNCHANGED <<held, boxes>>

HelperNext ==
    \/ \E overflow_checks \in BOOLEAN : SumErgsBoxesValue(overflow_checks)
    \/ UnwrapErgsBoxes
    \/ ErgsBoxesToInputs

HelperSpec == HelperInit /\ [][HelperNext]_vars

(***************************************************************************)
(* Properties.                                                             *)
(***************************************************************************)
\* v > 1_000_000, read off the digits of v: 1_000_000 = 15 * 2^16 + 16960
AboveMillion(v) ==
    \/ v[4] > 0
    \/ v[3] > 0
    \/ v[2] > 15
    \/ v[2] = 15 /\ v[1] > 16960

ExactlyOneNft(b) == Len(b.tokens) = 1 /\ b.tokens[1].amount = 1

LongInR4(b) ==
    /\ Len(b.additional_registers) >= 1
    /\ b.additional_registers[1].type = "Long"

\* C1: ErgsBox::new(entry) succeeds iff entry.value > 1_000_000, and fails
\* with an InvalidErgsValue error otherwise.
C1_ErgsBoxNewIffAboveMillion ==
    call.op = "ErgsBox::new" =>
        /\ ret.ok <=> AboveMillion(call.b.value)
        /\ ~ret.ok => ret.err.kind = "InvalidErgsValue"
        /\ ret.ok => ret.val.ty = "ErgsBox"

C1_Witness ==
    /\ call.op = "ErgsBox::new"
    /\ call.b.value = ToU64(1000000)
    /\ ~ret.ok
    /\ ret.err.kind = "InvalidErgsValue"

\* C2: for an entry with exactly one token of amount 1 and a Long v in
\* register 0, OracleBoxLong::new succeeds and stores datapoint = v.
C2_OracleDatapointStored ==
    (/\ call.op = "OracleBoxLong::new"
     /\ ExactlyOneNft(call.b)
     /\ LongInR4(call.b)) =>
        /\ ret.ok
        /\ ret.val.datapoint = call.b.additional_registers[1].v

C2_Witness ==
    /\ call.op = "OracleBoxLong::new"
    /\ ExactlyOneNft(call.b)
    /\ call.b.additional_registers = <<Long(-7), IntVal(42)>>
    /\ call.b.value = ToU64(999999)
    /\ ret.ok
    /\ ret.val.datapoint = -7

\* C3: with a Long in register 0 but a token list that is not exactly one
\* token of amount 1, OracleBoxLong::new fails with InvalidTokens and
\* produces no OracleBoxLong.
C3_OracleBadTokensRejected ==
    (/\ call.op = "OracleBoxLong::new"
     /\ LongInR4(call.b)
     /\ ~ExactlyOneNft(call.b)) =>
        /\ ~ret.ok
        /\ ret.err.kind = "InvalidTokens"
        /\ held = <<>>

C3_Witness ==
    /\ call.op = "OracleBoxLong::new"
    /\ LongInR4(call.b)
    /\ call.b.tokens = <<Token("nft", 2)>>
    /\ ~ret.ok
    /\ ret.err.kind = "InvalidTokens"
    /\ held = <<>>

\* C4: the datapoint check comes before the token check: no registers
\* gives InvalidOracleBox for the missing datapoint, a non-Long in register 0
\* gives InvalidOracleBox for the type mismatch, whatever the tokens are.
C4_OracleDatapointCheckedFirst ==
    call.op = "OracleBoxLong::new" =>
        /\ Len(call.b.additional_registers) = 0 =>
              ret = Err(InvalidOracleBox("No datapoint in R4."))
        /\ (/\ Len(call.b.additional_registers) >= 1
            /\ call.b.additional_registers[1].type # "Long") =>
              ret = Err(InvalidOracleBox("Value in R4 is not a Long."))

C4_Witness ==
    /\ call.op = "OracleBoxLong::new"
    /\ call.b.additional_registers = <<IntVal(42)>>
    /\ call.b.tokens = <<Token("nft", 1), Token("other", 1)>>
    /\ ret = Err(InvalidOracleBox("Value in R4 is not a Long."))

\* C5: when predicate(entry) fails with error e, StageBox::new fails with
\* that same error e, kind and message, and produces no StageBox.
C5_StageBoxPropagatesError ==
    (/\ call.op = "StageBox::new"
     /\ ~Apply(call.predicate, call.b).ok) =>
        /\ ret = Err(Apply(call.predicate, call.b).err)
        /\ held = <<>>

C5_Witness ==
    /\ call.op = "StageBox::new"
    /\ call.predicate = Fn("oracle_box_predicate")
    /\ ret = Err(InvalidOracleBox("No datapoint in R4."))
    /\ held = <<>>

\* C6: when predicate(entry) succeeds, StageBox::new succeeds with a
\* wrapper whose predicate is the supplied predicate, whose get_box() is the
\* input entry and whose stage is a fresh instance of the marker's type.
C6_StageBoxFields ==
    (/\ call.op = "StageBox::new"
     /\ Apply(call.predicate, call.b).ok) =>
        /\ ret.ok
        /\ ret.val.predicate = call.predicate
        /\ predicate(ret.val) = call.predicate
        /\ get_box(ret.val) = call.b
        /\ ret.val.stage = ST_new(call.marker.stage_type)

C6_Witness ==
    /\ call.op = "StageBox::new"
    /\ call.predicate = Fn("oracle_box_predicate")
    /\ call.marker = ST_new("DepositStage")
    /\ ret.ok
    /\ ret.val.stage = ST_new("DepositStage")
    /\ get_box(ret.val) = call.b

\* Digits of an exact sum: enough for 2^32 addends of 64 bits.
WideLimbs == 96 \div 16

\* a zero-extended to n digits
Widen(a, n) == [i \in 1..n |-> IF i <= Len(a) THEN a[i] ELSE 0]

\* the exact sum of the values of the first n boxes, in WideLimbs digits
RECURSIVE ExactSum(_, _)
ExactSum(bs, n) ==
    IF n = 0 THEN Widen(ToU64(0), WideLimbs)
    ELSE AddMod(Widen(bs[n].ergo_box.value, WideLimbs), ExactSum(bs, n - 1))

C8_HelpersPreserveOrder ==
    /\ [](call.op = "unwrap_ergs_boxes" =>
            /\ Len(ret.vec) = Len(boxes)
            /\ \A i \in 1..Len(boxes) : ret.vec[i] = boxes[i].ergo_box)
    /\ [](call.op = "ergs_boxes_to_inputs" =>
            /\ Len(ret.vec) = Len(boxes)
            /\ \A i \in 1..Len(boxes) :
                  ret.vec[i] = [box_id |-> boxes[i].ergo_box.box_id, extension |-> <<>>])
    /\ [][boxes' = boxes]_vars

C8_Witness ==
    /\ call.op = "unwrap_ergs_boxes"
    /\ Len(boxes) = 3
    /\ boxes[1] = boxes[3]
    /\ boxes[1] # boxes[2]
    /\ ret.vec = <<boxes[1].ergo_box, boxes[2].ergo_box, boxes[1].ergo_box>>

\* C9: every existing wrapper passes the predicate it exposes: applying
\* w.predicate() to w.get_box() succeeds.
C9_WrapperPassesItsPredicate ==
    held # <<>> => Apply(predicate(held[1]), get_box(held[1])).ok

Constructors == {"ErgsBox::new", "OracleBoxLong::new", "StageBox::new"}

\* C10: a wrapper is never mutated after construction: every operation but
\* a constructor leaves it as it is, the datapoint of an OracleBoxLong is the
\* Long in register 0 of its entry, and the predicate field is what
\* predicate() returns.
C10_NeverMutated ==
    /\ [](held # <<>> => held[1].predicate = predicate(held[1]))
    /\ [](held # <<>> /\ held[1].ty = "OracleBoxLong" =>
            held[1].datapoint = held[1].ergo_box.additional_registers[1].v)
    /\ [][call'.op \notin Constructors => held' = held]_vars

====
